---------------------------- MODULE Spec2Model ----------------------------
(***************************************************************************)
(* Model of the schema combinator engine of typed-object-validator        *)
(* (src/src/schemas.ts): schema instances live in a heap, the builder      *)
(* methods configure them, validate and transform recurse over them.      *)
(***************************************************************************)
EXTENDS Integers, Sequences, FiniteSets, TLC

VARIABLES heap, protos, last, built, called

vars == <<heap, protos, last, built, called>>

(***************************************************************************)
(* Bounds of the model.                                                    *)
(***************************************************************************)
\* longest chain of builder calls made on one instance in SpecBuild
MaxBuilderCalls == 2
\* longest generated input array
MaxArrayLen == 2

(***************************************************************************)
(* JavaScript values.  Every value is a record tagged by t.  Numbers are   *)
(* counted in halves (n = 3 is 1.5), so that non-integers exist; strings   *)
(* are sequences of one-character strings, literal strings (messages,      *)
(* option names) are kept whole in lit.                                    *)
(***************************************************************************)
Undef == [t |-> "undefined"]
Null == [t |-> "null"]
Bool(b) == [t |-> "boolean", b |-> b]
Half(k) == [t |-> "number", nan |-> FALSE, n |-> k]
Num(i) == Half(2 * i)
NaN == [t |-> "number", nan |-> TRUE, n |-> 0]
Str(s) == [t |-> "string", s |-> s]
Lit(l) == [t |-> "literal", lit |-> l]
Obj(o) == [t |-> "object", o |-> o]
Arr(a) == [t |-> "array", a |-> a]
DateOf(ms) == [t |-> "date", valid |-> TRUE, ms |-> ms]
InvalidDate == [t |-> "date", valid |-> FALSE, ms |-> 0]
Ref(p) == [t |-> "ref", p |-> p]
Fn(f) == [t |-> "function", f |-> f]
ErrMap(e) == [t |-> "errormap", e |-> e]
Thrown(e) == [t |-> "throw", error |-> e]

EmptyObj == Obj(<<>>)

IsThrow(v) == v.t = "throw"

\* the decimal keys JavaScript gives to the indices of an array
IdxKeys == <<"0", "1", "2", "3", "4", "5">>
IdxKey(i) == IdxKeys[i + 1]

\* typeof v
TypeOf(v) ==
    CASE v.t = "undefined" -> "undefined"
      [] v.t = "boolean" -> "boolean"
      [] v.t = "number" -> "number"
      [] v.t \in {"string", "literal"} -> "string"
      [] v.t = "function" -> "function"
      [] OTHER -> "object"

\* Array.isArray(v)
IsArray(v) == v.t = "array"

\* the truthiness JavaScript gives v in a condition
Truthy(v) ==
    CASE v.t \in {"undefined", "null"} -> FALSE
      [] v.t = "boolean" -> v.b
      [] v.t = "number" -> ~v.nan /\ v.n # 0
      [] v.t = "string" -> v.s # <<>>
      [] v.t = "literal" -> v.lit # ""
      [] OTHER -> TRUE

\* a ?? b
Nullish(a, b) == IF a.t \in {"undefined", "null"} THEN b ELSE a

\* a === b for a primitive a (objects are compared by identity, and no two
\* objects of the model that meet under === are the same object)
StrictEq(a, b) ==
    /\ a.t \in {"undefined", "null", "boolean", "number", "string"}
    /\ a = b
    /\ ~(a.t = "number" /\ a.nan)

\* the own enumerable properties of v, as a function from keys to values
Members(v, ps) ==
    CASE v.t = "object" -> v.o
      [] v.t = "errormap" -> v.e
      [] v.t = "array" -> [k \in {IdxKey(i - 1) : i \in 1..Len(v.a)} |->
                              v.a[CHOOSE i \in 1..Len(v.a) : IdxKey(i - 1) = k]]
      [] v.t = "ref" -> ps[v.p]
      [] OTHER -> <<>>

\* v[key]: a TypeError on undefined and null, undefined for a missing key
Get(v, key, ps) ==
    LET m == Members(v, ps)
    IN  IF v.t \in {"undefined", "null"} THEN Thrown("TypeError")
        ELSE IF key \in DOMAIN m THEN m[key]
        ELSE Undef

\* v.length
Length(v, ps) ==
    CASE v.t = "string" -> [t |-> "number", nan |-> FALSE, n |-> 2 * Len(v.s)]
      [] v.t = "array" -> [t |-> "number", nan |-> FALSE, n |-> 2 * Len(v.a)]
      [] OTHER -> Get(v, "length", ps)

\* f with key set to v (an assignment obj[key] = v)
Put(f, key, v) == [k \in (DOMAIN f) \cup {key} |-> IF k = key THEN v ELSE f[k]]

\* Object.assign(target, source) on the members of target
Assign(tm, sm) == [k \in (DOMAIN tm) \cup (DOMAIN sm) |->
                      IF k \in DOMAIN sm THEN sm[k] ELSE tm[k]]


(***************************************************************************)
(* Strings, numbers, dates and regular expressions.                        *)
(***************************************************************************)
Chars == {" ", "a", "A", "-", "ß", "s", "S"}

\* String.prototype.trim
RECURSIVE TrimStart(_)
TrimStart(s) == IF s # <<>> /\ Head(s) = " " THEN TrimStart(Tail(s)) ELSE s

RECURSIVE TrimEnd(_)
TrimEnd(s) ==
    IF s # <<>> /\ s[Len(s)] = " " THEN TrimEnd(SubSeq(s, 1, Len(s) - 1)) ELSE s

Trim(s) == TrimEnd(TrimStart(s))

UpperChar(c) ==
    CASE c = "a" -> "A" [] c = "b" -> "B" [] c = "x" -> "X" [] c = "s" -> "S"
      [] OTHER -> c
LowerChar(c) ==
    CASE c = "A" -> "a" [] c = "B" -> "b" [] c = "X" -> "x" [] c = "S" -> "s"
      [] OTHER -> c

\* String.prototype.toUpperCase, toLowerCase: the upper case of "ß" is the two
\* characters "SS", and "ß" is its own lower case
RECURSIVE ToUpperCase(_)
ToUpperCase(s) ==
    IF s = <<>> THEN <<>>
    ELSE (IF Head(s) = "ß" THEN <<"S", "S">> ELSE <<UpperChar(Head(s))>>)
             \o ToUpperCase(Tail(s))
ToLowerCase(s) == [i \in 1..Len(s) |-> LowerChar(s[i])]

\* s.split(" ").join("-")
Kebab(s) == [i \in 1..Len(s) |-> IF s[i] = " " THEN "-" ELSE s[i]]

\* a < b on numbers (false when either is NaN)
Lt(a, b) == ~a.nan /\ ~b.nan /\ a.n < b.n

\* Number.isInteger
IsInteger(v) == ~v.nan /\ v.n % 2 = 0

\* Math.floor, Math.ceil, Math.round (halves round towards +Infinity)
MathFloor(v) == IF v.nan THEN v ELSE Half(v.n - (v.n % 2))
MathCeil(v) == IF v.nan THEN v ELSE Half(v.n + (v.n % 2))
MathRound(v) == MathCeil(v)

\* new Date(v) for a string, a number or a Date: no string over Chars parses
\* to a date; a number is the time value, its fraction cut off
NewDate(v) ==
    CASE v.t = "date" -> v
      [] v.t = "number" ->
            IF v.nan THEN InvalidDate
            ELSE DateOf(IF v.n >= 0 THEN v.n \div 2 ELSE -((-v.n) \div 2))
      [] OTHER -> InvalidDate

\* new RegExp(src): the pattern is a literal piece of text
RegExpOf(src) == [t |-> "regexp", src |-> src, global |-> FALSE, lastIndex |-> 0]

\* regex.exec(s): whether it matched, and the regex object afterwards (a
\* global regex starts at lastIndex and moves it)
Exec(re, s) ==
    LET start == IF re.global THEN re.lastIndex ELSE 0
        n == Len(re.src)
        at == {i \in start..(Len(s) - n) : SubSeq(s, i + 1, i + n) = re.src}
        first == CHOOSE i \in at : \A j \in at : i <= j
    IN  IF at = {}
        THEN [matched |-> FALSE,
              re |-> IF re.global THEN [re EXCEPT !.lastIndex = 0] ELSE re]
        ELSE [matched |-> TRUE,
              re |-> IF re.global THEN [re EXCEPT !.lastIndex = first + n] ELSE re]

(***************************************************************************)
(* Schema instances: one record per instance, children named by their heap *)
(* index.                                                                  *)
(***************************************************************************)
\* Schema: the fields and the constructor
SchemaFields(requiredMessage, noNullMessage) ==
    [t |-> "schema",
     isNullable |-> FALSE,
     noNullMessage |-> Nullish(noNullMessage, Lit("Null is not acceptable")),
     isOptional |-> FALSE,
     requiredMessage |-> Nullish(requiredMessage, Lit("Enter a value")),
     customTransformer |-> Undef,
     whenEmptyValue |-> Undef,
     setPrototype |-> Undef]

\* SizeSchema: the fields
SizeFields ==
    [minValue |-> Undef, minMessage |-> Lit("Must be longer"),
     maxValue |-> Undef, maxMessage |-> Lit("Must be shorter")]

StringSchema(requiredMessage) ==
    [kind |-> "String", regexMatch |-> Undef,
     regexMessage |-> Lit("Does not match regex"), trim |-> Undef, casing |-> Undef]
    @@ SizeFields @@ SchemaFields(requiredMessage, Undef)

NumberSchema(requiredMessage) ==
    [kind |-> "Number", intMessage |-> Lit("Must be integer"),
     allowFloat |-> Undef, rounding |-> Undef]
    @@ SizeFields @@ SchemaFields(requiredMessage, Undef)

BooleanSchema(requiredMessage) ==
    [kind |-> "Boolean"] @@ SchemaFields(requiredMessage, Undef)

ValueSchema(value, requiredMessage) ==
    [kind |-> "Value", value |-> value] @@ SchemaFields(requiredMessage, Undef)

ObjectSchema(requiredMessage) ==
    [kind |-> "Object"] @@ SchemaFields(requiredMessage, Undef)

\* fields: the declared fields in declaration order, <<[key, schema], ...>>
MappedObjectSchema(fields, requiredMessage) ==
    [kind |-> "MappedObject", fields |-> fields] @@ SchemaFields(requiredMessage, Undef)

OrSchema(schemas, requiredMessage) ==
    [kind |-> "Or", schemas |-> schemas] @@ SchemaFields(requiredMessage, Undef)

AndSchema(schemas, requiredMessage) ==
    [kind |-> "And", schemas |-> schemas] @@ SchemaFields(requiredMessage, Undef)

TupleSchema(schemas, requiredMessage) ==
    [kind |-> "Tuple", schemas |-> schemas] @@ SchemaFields(requiredMessage, Undef)

ArraySchema(schema, requiredMessage) ==
    [kind |-> "Array", schema |-> schema]
    @@ SizeFields @@ SchemaFields(requiredMessage, Undef)

CustomSchema(validator, requiredMessage) ==
    [kind |-> "Custom", validator |-> validator] @@ SchemaFields(requiredMessage, Undef)

DateSchema(requiredMessage, invalidDateMessage) ==
    [kind |-> "Date", invalidMessage |-> Nullish(invalidDateMessage, Lit("Invalid date"))]
    @@ SchemaFields(requiredMessage, Undef)

\* the dictionary made by mapped(keySchema, valueSchema)
MappedSchema(keySchema, valueSchema) ==
    [kind |-> "Mapped", keySchema |-> keySchema, valueSchema |-> valueSchema]
    @@ SchemaFields(Undef, Undef)

SizeKinds == {"String", "Number", "Array"}

(***************************************************************************)
(* The builder methods.  Each gives the instance after the call, or the    *)
(* error it threw (the instance is then as it was).                        *)
(***************************************************************************)
Optional(s) ==
    IF s.isOptional THEN Thrown("Duplicate optional() call")
    ELSE [s EXCEPT !.isOptional = TRUE]

Nullable(s) ==
    IF s.isNullable THEN Thrown("Duplicate nullable() call")
    ELSE [s EXCEPT !.isNullable = TRUE]

DoSetWhenEmpty(s, valueToSet) ==
    IF Truthy(s.whenEmptyValue) THEN Thrown("Duplicate doSetWhenEmpty() call")
    ELSE [s EXCEPT !.whenEmptyValue = Obj([set |-> valueToSet])]

DoCustom(s, transformer) ==
    IF Truthy(s.customTransformer) THEN Thrown("Duplicate doCustom() call")
    ELSE [s EXCEPT !.customTransformer = transformer]

DoSetPrototype(s, prototype) ==
    IF Truthy(s.setPrototype) THEN Thrown("Duplicate doPrototype() call")
    ELSE [s EXCEPT !.setPrototype = prototype]

Min(s, min, message) ==
    IF s.minValue # Undef THEN Thrown("Duplicate min() call")
    ELSE [s EXCEPT !.minValue = min,
                   !.minMessage = IF Truthy(message) THEN message ELSE @]

Max(s, max, message) ==
    IF s.maxValue # Undef THEN Thrown("Duplicate max() call")
    ELSE [s EXCEPT !.maxValue = max,
                   !.maxMessage = IF Truthy(message) THEN message ELSE @]

Regex(s, regex, message) ==
    IF Truthy(s.regexMatch) THEN Thrown("Duplicate regex() call")
    ELSE [s EXCEPT !.regexMatch = IF TypeOf(regex) = "string" THEN RegExpOf(regex.s)
                                  ELSE regex,
                   !.regexMessage = IF Truthy(message) THEN message ELSE @]

DoTrim(s, trim) ==
    IF s.trim # Undef THEN Thrown("Duplicate doTrim() call")
    ELSE [s EXCEPT !.trim = IF trim = Undef THEN Bool(TRUE) ELSE trim]

DoCase(s, casing) ==
    IF Truthy(s.casing) THEN Thrown("Duplicate doTransformCase() call")
    ELSE [s EXCEPT !.casing = casing]

Float(s, allow, mustBeIntegerMessage) ==
    IF s.allowFloat # Undef THEN Thrown("Duplicate float() call")
    ELSE [s EXCEPT !.allowFloat = IF allow = Undef THEN Bool(TRUE) ELSE allow,
                   !.intMessage = IF Truthy(mustBeIntegerMessage)
                                  THEN mustBeIntegerMessage ELSE @]

DoRound(s, rounding) ==
    IF Truthy(s.rounding) THEN Thrown("Duplicate doRound() call")
    ELSE [s EXCEPT !.rounding = IF rounding = Undef THEN Lit("floor") ELSE rounding]

(***************************************************************************)
(* Functions supplied by the caller: the validators given to custom() and  *)
(* the transformers given to doCustom().                                   *)
(***************************************************************************)
Validators == {"accept", "reject", "nonNull", "whenAbort"}

ApplyValidator(f, value, context) ==
    CASE f = "accept" -> Undef
      [] f = "reject" -> Lit("Rejected")
      [] f = "nonNull" ->
            IF value.t \in {"undefined", "null"} THEN Lit("Missing") ELSE Undef
      [] f = "whenAbort" ->
            IF Truthy(Get(context, "abortEarly", <<>>)) THEN Lit("Aborting") ELSE Undef

\* "blank" gives the empty string; "seen" gives back what it saw of the
\* context: its trimStrings setting
Transformers == {"blank", "seen"}

ApplyTransformer(f, value, context) ==
    CASE f = "blank" -> Str(<<>>)
      [] f = "seen" -> Get(context, "trimStrings", <<>>)

(***************************************************************************)
(* validate.  The machine state m = [heap, protos, trace] is threaded      *)
(* through the recursion: heap holds the instances (and their regex        *)
(* objects), protos the members of the objects registered with             *)
(* doSetPrototype, trace the calls made on instances, in order.  Every     *)
(* operator gives [r |-> what the call returned or threw, m |-> the        *)
(* machine state after it].                                                *)
(***************************************************************************)
Ret(r, m) == [r |-> r, m |-> m]

Visit(m, op, id) == [m EXCEPT !.trace = Append(@, <<op, id>>)]

\* validateNullable with the two flags taken for one another
ValidateNullableSwapped(s, value) ==
    IF value = Undef THEN (IF s.isNullable THEN Undef ELSE s.requiredMessage)
    ELSE IF value = Null THEN (IF s.isOptional THEN Undef ELSE s.noNullMessage)
    ELSE Null

\* validateNullable without its check for null
ValidateNullableNoNull(s, value) ==
    IF value = Undef THEN (IF s.isOptional THEN Undef ELSE s.requiredMessage)
    ELSE Null

\* Schema.validateNullable: null is "go on with the type's own checks"
ValidateNullable(s, value) ==
    IF value = Undef THEN (IF s.isOptional THEN Undef ELSE s.requiredMessage)
    ELSE IF value = Null THEN (IF s.isNullable THEN Undef ELSE s.noNullMessage)
    ELSE Null

\* validateSize looking at the max bound first
ValidateSizeMaxFirst(s, value) ==
    IF s.maxValue # Undef /\ Lt(s.maxValue, value) THEN s.maxMessage
    ELSE IF s.minValue # Undef /\ Lt(value, s.minValue) THEN s.minMessage
    ELSE Undef

\* SizeSchema.validateSize
ValidateSize(s, value) ==
    IF s.minValue # Undef /\ Lt(value, s.minValue) THEN s.minMessage
    ELSE IF s.maxValue # Undef /\ Lt(s.maxValue, value) THEN s.maxMessage
    ELSE Undef

\* abortEarly taken as false whatever the context gives
AbortEarlyNever(context) == FALSE

\* abortEarly taken as false when the context does not give it
AbortEarlyDefaultFalse(context) ==
    Truthy(Nullish(Get(context, "abortEarly", <<>>), Bool(FALSE)))

\* abortEarly taken as true whatever the context gives
AbortEarlyAlways(context) == TRUE

\* context.abortEarly ?? true
AbortEarly(context) == Truthy(Nullish(Get(context, "abortEarly", <<>>), Bool(TRUE)))

ErrOrUndefinedAlwaysMap(err) == ErrMap(err)

\* Object.keys(err).length > 0 ? err : undefined
ErrOrUndefined(err) == IF DOMAIN err # {} THEN ErrMap(err) ELSE Undef

StringValidate(m, id, value, context) ==
    LET s == m.heap[id]
        n == ValidateNullable(s, value)
        sz == ValidateSize(s, Length(value, m.protos))
        x == Exec(s.regexMatch, value.s)
    IN  IF n # Null THEN Ret(n, m)
        ELSE IF TypeOf(value) # "string" THEN Ret(Lit("Must be string"), m)
        ELSE IF sz # Undef THEN Ret(sz, m)
        ELSE IF Truthy(s.regexMatch)
             THEN Ret(IF ~x.matched THEN s.regexMessage ELSE Undef,
                      [m EXCEPT !.heap[id].regexMatch = x.re])
             ELSE Ret(Undef, m)

\* NumberSchema.validate checking the range before the integer check
NumberValidateSizeFirst(m, id, value, context) ==
    LET s == m.heap[id]
        n == ValidateNullable(s, value)
        sz == ValidateSize(s, value)
    IN  IF n # Null THEN Ret(n, m)
        ELSE IF TypeOf(value) # "number" \/ value.nan THEN Ret(Lit("Must be number"), m)
        ELSE IF sz # Undef THEN Ret(sz, m)
        ELSE IF ~Truthy(Nullish(s.allowFloat, Bool(FALSE))) /\ ~IsInteger(value)
             THEN Ret(s.intMessage, m)
        ELSE Ret(Undef, m)

NumberValidate(m, id, value, context) ==
    LET s == m.heap[id]
        n == ValidateNullable(s, value)
    IN  IF n # Null THEN Ret(n, m)
        ELSE IF TypeOf(value) # "number" \/ value.nan THEN Ret(Lit("Must be number"), m)
        ELSE IF ~Truthy(Nullish(s.allowFloat, Bool(FALSE))) /\ ~IsInteger(value)
             THEN Ret(s.intMessage, m)
        ELSE Ret(ValidateSize(s, value), m)

BooleanValidate(m, id, value, context) ==
    LET s == m.heap[id]
        n == ValidateNullable(s, value)
    IN  IF n # Null THEN Ret(n, m)
        ELSE IF TypeOf(value) # "boolean" THEN Ret(Lit("Must be boolean"), m)
        ELSE Ret(Undef, m)

ValueValidate(m, id, value, context) ==
    LET s == m.heap[id]
        n == ValidateNullable(s, value)
    IN  IF n # Null THEN Ret(n, m)
        ELSE IF ~StrictEq(s.value, value) THEN Ret(s.requiredMessage, m)
        ELSE Ret(Undef, m)

ObjectValidate(m, id, value, context) ==
    LET s == m.heap[id]
        n == ValidateNullable(s, value)
    IN  IF n # Null THEN Ret(n, m)
        ELSE IF TypeOf(value) # "object" THEN Ret(Lit("Must be object"), m)
        ELSE Ret(Undef, m)

\* CustomSchema.validate making the nullability check of the other classes
CustomValidateNullable(m, id, value, context) ==
    LET ctx == IF context = Undef THEN Obj([abortEarly |-> Bool(TRUE)]) ELSE context
        n == ValidateNullable(m.heap[id], value)
    IN  IF n # Null THEN Ret(n, m)
        ELSE Ret(ApplyValidator(m.heap[id].validator, value, ctx), m)

CustomValidate(m, id, value, context) ==
    LET ctx == IF context = Undef THEN Obj([abortEarly |-> Bool(TRUE)]) ELSE context
    IN  Ret(ApplyValidator(m.heap[id].validator, value, ctx), m)

DateValidate(m, id, value, context) ==
    LET s == m.heap[id]
        n == ValidateNullable(s, value)
    IN  IF n # Null THEN Ret(n, m)
        ELSE IF /\ (TypeOf(value) \in {"string", "number"} \/ value.t = "date")
                /\ NewDate(value).valid
             THEN Ret(Undef, m)
        ELSE Ret(s.invalidMessage, m)

RECURSIVE Validate(_, _, _, _)
RECURSIVE MappedObjectLoop(_, _, _, _, _, _)
RECURSIVE OrLoop(_, _, _, _, _, _)
RECURSIVE AndLoop(_, _, _, _, _)
RECURSIVE TupleLoop(_, _, _, _, _, _)
RECURSIVE ArrayLoop(_, _, _, _, _, _)

\* MappedObjectSchema.validate: the loop over the declared fields, from field i
MappedObjectLoop(m, id, value, context, i, err) ==
    LET fields == m.heap[id].fields
        key == fields[i].key
        field == Get(value, key, m.protos)
        res == Validate(m, fields[i].schema, field, context)
        err2 == Put(err, key, res.r)
    IN  IF i > Len(fields) THEN Ret(ErrOrUndefined(err), m)
        ELSE IF IsThrow(field) THEN Ret(field, m)
        ELSE IF IsThrow(res.r) THEN res
        ELSE IF res.r # Undef
             THEN IF AbortEarly(context) THEN Ret(ErrMap(err2), res.m)
                  ELSE MappedObjectLoop(res.m, id, value, context, i + 1, err2)
        ELSE MappedObjectLoop(res.m, id, value, context, i + 1, err)

MappedObjectValidate(m, id, value, context) ==
    LET s == m.heap[id]
        ctx == IF context = Undef THEN EmptyObj ELSE context
        n == ValidateNullable(s, value)
    IN  IF n # Null THEN Ret(n, m)
        ELSE IF TypeOf(value) # "object" THEN Ret(Lit("Invalid object"), m)
        ELSE MappedObjectLoop(m, id, value, ctx, 1, <<>>)

\* the loop of OrSchema.validate keeping the first error instead of the last
RECURSIVE OrLoopFirstError(_, _, _, _, _, _)
OrLoopFirstError(m, id, value, context, i, result) ==
    LET schemas == m.heap[id].schemas
        res == Validate(m, schemas[i], value, context)
    IN  IF i > Len(schemas) THEN Ret(result, m)
        ELSE IF IsThrow(res.r) THEN res
        ELSE IF res.r = Undef THEN Ret(Undef, res.m)
        ELSE OrLoopFirstError(res.m, id, value, context, i + 1,
                              IF result = Undef THEN res.r ELSE result)

\* OrSchema.validate: the loop over the children, from child i
OrLoop(m, id, value, context, i, result) ==
    LET schemas == m.heap[id].schemas
        res == Validate(m, schemas[i], value, context)
    IN  IF i > Len(schemas) THEN Ret(result, m)
        ELSE IF IsThrow(res.r) THEN res
        ELSE IF res.r = Undef THEN Ret(Undef, res.m)
        ELSE OrLoop(res.m, id, value, context, i + 1, res.r)

\* OrSchema.validate without the nullability pre-check of the Or itself
OrValidateChildrenOnly(m, id, value, context) ==
    OrLoop(m, id, value, IF context = Undef THEN EmptyObj ELSE context, 1, Undef)

OrValidate(m, id, value, context) ==
    LET s == m.heap[id]
        ctx == IF context = Undef THEN EmptyObj ELSE context
        n == ValidateNullable(s, value)
    IN  IF n # Null THEN Ret(n, m)
        ELSE OrLoop(m, id, value, ctx, 1, Undef)

\* the loop of AndSchema.validate going on after a failing child
RECURSIVE AndLoopLastError(_, _, _, _, _, _)
AndLoopLastError(m, id, value, context, i, result) ==
    LET schemas == m.heap[id].schemas
        res == Validate(m, schemas[i], value, context)
    IN  IF i > Len(schemas) THEN Ret(result, m)
        ELSE IF IsThrow(res.r) THEN res
        ELSE AndLoopLastError(res.m, id, value, context, i + 1,
                              IF res.r # Undef THEN res.r ELSE result)

\* AndSchema.validate returning the last failing child's error
AndValidateLastError(m, id, value, context) ==
    LET s == m.heap[id]
        ctx == IF context = Undef THEN EmptyObj ELSE context
        n == ValidateNullable(s, value)
    IN  IF n # Null THEN Ret(n, m)
        ELSE AndLoopLastError(m, id, value, ctx, 1, Undef)

\* AndSchema.validate: the loop over the children, from child i
AndLoop(m, id, value, context, i) ==
    LET schemas == m.heap[id].schemas
        res == Validate(m, schemas[i], value, context)
    IN  IF i > Len(schemas) THEN Ret(Undef, m)
        ELSE IF IsThrow(res.r) THEN res
        ELSE IF res.r # Undef THEN res
        ELSE AndLoop(res.m, id, value, context, i + 1)

AndValidate(m, id, value, context) ==
    LET s == m.heap[id]
        ctx == IF context = Undef THEN EmptyObj ELSE context
        n == ValidateNullable(s, value)
    IN  IF n # Null THEN Ret(n, m)
        ELSE AndLoop(m, id, value, ctx, 1)

\* value[i] of an array, undefined beyond its end
At(value, i) == IF i < Len(value.a) THEN value.a[i + 1] ELSE Undef

\* the loop of TupleSchema.validate over the supplied positions only
RECURSIVE TupleLoopSupplied(_, _, _, _, _, _)
TupleLoopSupplied(m, id, value, context, i, err) ==
    LET schemas == m.heap[id].schemas
        res == Validate(m, schemas[i + 1], At(value, i), context)
        err2 == Put(err, IdxKey(i), res.r)
    IN  IF ~(i < Len(value.a)) THEN Ret(ErrOrUndefined(err), m)
        ELSE IF IsThrow(res.r) THEN res
        ELSE IF res.r # Undef
             THEN IF AbortEarly(context) THEN Ret(ErrMap(err2), res.m)
                  ELSE TupleLoopSupplied(res.m, id, value, context, i + 1, err2)
        ELSE TupleLoopSupplied(res.m, id, value, context, i + 1, err)

\* TupleSchema.validate: the loop over the positions, from position i
TupleLoop(m, id, value, context, i, err) ==
    LET schemas == m.heap[id].schemas
        res == Validate(m, schemas[i + 1], At(value, i), context)
        err2 == Put(err, IdxKey(i), res.r)
    IN  IF ~(i < Len(schemas)) THEN Ret(ErrOrUndefined(err), m)
        ELSE IF IsThrow(res.r) THEN res
        ELSE IF res.r # Undef
             THEN IF AbortEarly(context) THEN Ret(ErrMap(err2), res.m)
                  ELSE TupleLoop(res.m, id, value, context, i + 1, err2)
        ELSE TupleLoop(res.m, id, value, context, i + 1, err)

TupleValidate(m, id, value, context) ==
    LET s == m.heap[id]
        ctx == IF context = Undef THEN EmptyObj ELSE context
        n == ValidateNullable(s, value)
    IN  IF n # Null THEN Ret(n, m)
        ELSE IF ~IsArray(value) \/ Len(value.a) > Len(s.schemas)
             THEN Ret(Lit("Invalid tuple"), m)
        ELSE TupleLoop(m, id, value, ctx, 0, <<>>)

\* ArraySchema.validate: the loop over the elements, from element i
ArrayLoop(m, id, value, context, i, err) ==
    LET res == Validate(m, m.heap[id].schema, At(value, i), context)
        err2 == Put(err, IdxKey(i), res.r)
    IN  IF ~(i < Len(value.a)) THEN Ret(ErrOrUndefined(err), m)
        ELSE IF IsThrow(res.r) THEN res
        ELSE IF res.r # Undef
             THEN IF AbortEarly(context) THEN Ret(ErrMap(err2), res.m)
                  ELSE ArrayLoop(res.m, id, value, context, i + 1, err2)
        ELSE ArrayLoop(res.m, id, value, context, i + 1, err)

\* ArraySchema.validate checking the length after the elements
ArrayValidateSizeLast(m, id, value, context) ==
    LET s == m.heap[id]
        ctx == IF context = Undef THEN EmptyObj ELSE context
        n == ValidateNullable(s, value)
        sz == ValidateSize(s, Length(value, m.protos))
        res == ArrayLoop(m, id, value, ctx, 0, <<>>)
    IN  IF n # Null THEN Ret(n, m)
        ELSE IF ~IsArray(value) THEN Ret(Lit("Must be array"), m)
        ELSE IF res.r # Undef THEN res
        ELSE Ret(sz, res.m)

ArrayValidate(m, id, value, context) ==
    LET s == m.heap[id]
        ctx == IF context = Undef THEN EmptyObj ELSE context
        n == ValidateNullable(s, value)
        sz == ValidateSize(s, Length(value, m.protos))
    IN  IF n # Null THEN Ret(n, m)
        ELSE IF ~IsArray(value) THEN Ret(Lit("Must be array"), m)
        ELSE IF sz # Undef THEN Ret(sz, m)
        ELSE ArrayLoop(m, id, value, ctx, 0, <<>>)

\* the keys of the model's values, in the order in which the keys of an
\* object are walked: the index keys first, ascending, then the others
KeyOrder == IdxKeys \o <<"a", "b", "x", "A", "B", "X", "greet">>

\* the own enumerable properties of v, a string's characters included
KeyedMembers(v, ps) ==
    IF v.t = "string"
    THEN [k \in {IdxKey(i - 1) : i \in 1..Len(v.s)} |->
             Str(<<v.s[CHOOSE i \in 1..Len(v.s) : IdxKey(i - 1) = k]>>)]
    ELSE Members(v, ps)

\* Object.keys(v)
Keys(v, ps) == SelectSeq(KeyOrder, LAMBDA k : k \in DOMAIN KeyedMembers(v, ps))

\* a key as the string handed to the key schema (the keys of the model have
\* one character), and the key a string names
KeyString(k) == Str(<<k>>)

RECURSIVE KeyOf(_)
KeyOf(s) == IF s = <<>> THEN "" ELSE s[1] \o KeyOf(Tail(s))

\* the dictionary's loop with the key schema's own error at a rejected key
RECURSIVE MappedLoopKeyError(_, _, _, _, _, _)
MappedLoopKeyError(m, id, value, context, keys, err) ==
    LET s == m.heap[id]
        key == Head(keys)
        kres == Validate(m, s.keySchema, KeyString(key), context)
        vres == Validate(kres.m, s.valueSchema, KeyedMembers(value, m.protos)[key], context)
        res == IF kres.r # Undef THEN kres ELSE vres
        err2 == Put(err, key, res.r)
    IN  IF keys = <<>> THEN Ret(ErrOrUndefined(err), m)
        ELSE IF IsThrow(res.r) THEN res
        ELSE IF res.r # Undef
             THEN IF AbortEarly(context) THEN Ret(ErrMap(err2), res.m)
                  ELSE MappedLoopKeyError(res.m, id, value, context, Tail(keys), err2)
        ELSE MappedLoopKeyError(res.m, id, value, context, Tail(keys), err)

\* the dictionary's validate: the loop over the keys of the input; a key the
\* key schema rejects gets the fixed message, a key it accepts is reported
\* with what the value schema answers for its value
RECURSIVE MappedLoop(_, _, _, _, _, _)
MappedLoop(m, id, value, context, keys, err) ==
    LET s == m.heap[id]
        key == Head(keys)
        kres == Validate(m, s.keySchema, KeyString(key), context)
        vres == Validate(kres.m, s.valueSchema, KeyedMembers(value, m.protos)[key], context)
        res == IF IsThrow(kres.r) THEN kres
               ELSE IF kres.r # Undef
                    THEN Ret(Lit("Does not match possible values"), kres.m)
               ELSE vres
        err2 == Put(err, key, res.r)
    IN  IF keys = <<>> THEN Ret(ErrOrUndefined(err), m)
        ELSE IF IsThrow(res.r) THEN res
        ELSE IF res.r # Undef
             THEN IF AbortEarly(context) THEN Ret(ErrMap(err2), res.m)
                  ELSE MappedLoop(res.m, id, value, context, Tail(keys), err2)
        ELSE MappedLoop(res.m, id, value, context, Tail(keys), err)

MappedValidate(m, id, value, context) ==
    LET s == m.heap[id]
        ctx == IF context = Undef THEN EmptyObj ELSE context
        n == ValidateNullable(s, value)
    IN  IF n # Null THEN Ret(n, m)
        ELSE MappedLoop(m, id, value, ctx, Keys(value, m.protos), <<>>)

\* schema.validate(value, context) on instance id: the method of its class
Validate(m0, id, value, context) ==
    LET m == Visit(m0, "validate", id)
        kind == m.heap[id].kind
    IN  CASE kind = "String" -> StringValidate(m, id, value, context)
          [] kind = "Number" -> NumberValidate(m, id, value, context)
          [] kind = "Boolean" -> BooleanValidate(m, id, value, context)
          [] kind = "Value" -> ValueValidate(m, id, value, context)
          [] kind = "Object" -> ObjectValidate(m, id, value, context)
          [] kind = "MappedObject" -> MappedObjectValidate(m, id, value, context)
          [] kind = "Or" -> OrValidate(m, id, value, context)
          [] kind = "And" -> AndValidate(m, id, value, context)
          [] kind = "Tuple" -> TupleValidate(m, id, value, context)
          [] kind = "Array" -> ArrayValidate(m, id, value, context)
          [] kind = "Custom" -> CustomValidate(m, id, value, context)
          [] kind = "Date" -> DateValidate(m, id, value, context)
          [] kind = "Mapped" -> MappedValidate(m, id, value, context)

(***************************************************************************)
(* transform.                                                              *)
(***************************************************************************)
\* Object.assign(target, source): the registered object target takes the
\* members of source and is what comes back; a target that is no object is
\* wrapped into a new object first
ObjectAssign(m, target, source) ==
    IF target.t = "ref"
    THEN Ret(target, [m EXCEPT !.protos[target.p] = Assign(@, Members(source, m.protos))])
    ELSE Ret(Obj(Members(source, m.protos)), m)

\* the base pass substituting the empty value before the custom transformer
SchemaTransformSubstituteFirst(m, id, value, context) ==
    LET s == m.heap[id]
        ctx == IF context = Undef THEN EmptyObj ELSE context
        v1 == IF Truthy(s.whenEmptyValue)
              THEN (IF Truthy(value) THEN value ELSE s.whenEmptyValue.o.set) ELSE value
        v2 == IF Truthy(s.customTransformer)
              THEN ApplyTransformer(s.customTransformer.f, v1, ctx) ELSE v1
    IN  IF Truthy(s.setPrototype) /\ TypeOf(v2) = "object"
        THEN ObjectAssign(m, s.setPrototype, v2)
        ELSE Ret(v2, m)

\* Schema.transform: the base pass
SchemaTransform(m, id, value, context) ==
    LET s == m.heap[id]
        ctx == IF context = Undef THEN EmptyObj ELSE context
        v1 == IF Truthy(s.customTransformer)
              THEN ApplyTransformer(s.customTransformer.f, value, ctx) ELSE value
        v2 == IF Truthy(s.whenEmptyValue)
              THEN (IF Truthy(v1) THEN v1 ELSE s.whenEmptyValue.o.set) ELSE v1
    IN  IF Truthy(s.setPrototype) /\ TypeOf(v2) = "object"
        THEN ObjectAssign(m, s.setPrototype, v2)
        ELSE Ret(v2, m)

\* the switch on this.casing
ApplyCasing(casing, s) ==
    CASE casing = Lit("upper") -> ToUpperCase(s)
      [] casing = Lit("lower") -> ToLowerCase(s)
      [] casing = Lit("capitalize") ->
            IF s = <<>> THEN <<>>
            ELSE ToUpperCase(<<Head(s)>>) \o ToLowerCase(Tail(s))
      [] casing = Lit("kebab-case") -> Kebab(s)
      [] casing = Lit("kebab-lower-case") -> Kebab(ToLowerCase(s))
      [] OTHER -> s

\* StringSchema.transform letting the context decide before the instance
StringTransformContextFirst(m, id, value, context) ==
    LET s == m.heap[id]
        ctx == IF context = Undef THEN EmptyObj ELSE context
        doTrim == Truthy(Nullish(Get(ctx, "trimStrings", m.protos),
                         Nullish(s.trim, Bool(TRUE))))
        trimmed == IF doTrim THEN Trim(value.s) ELSE value.s
    IN  IF TypeOf(value) = "string"
        THEN SchemaTransform(m, id, Str(ApplyCasing(s.casing, trimmed)), ctx)
        ELSE SchemaTransform(m, id, value, ctx)

StringTransform(m, id, value, context) ==
    LET s == m.heap[id]
        ctx == IF context = Undef THEN EmptyObj ELSE context
        doTrim == Truthy(Nullish(s.trim,
                         Nullish(Get(ctx, "trimStrings", m.protos), Bool(TRUE))))
        trimmed == IF doTrim THEN Trim(value.s) ELSE value.s
    IN  IF TypeOf(value) = "string"
        THEN SchemaTransform(m, id, Str(ApplyCasing(s.casing, trimmed)), ctx)
        ELSE SchemaTransform(m, id, value, ctx)

\* ToNumber, as Math.ceil, Math.floor and Math.round apply it to their argument
RECURSIVE ToNumber(_)
ToNumber(v) ==
    CASE v.t = "number" -> v
      [] v.t = "null" -> Half(0)
      [] v.t = "boolean" -> IF v.b THEN Half(2) ELSE Half(0)
      [] v.t = "string" -> IF Trim(v.s) = <<>> THEN Half(0) ELSE NaN
      [] v.t = "date" -> IF v.valid THEN Half(2 * v.ms) ELSE NaN
      [] v.t = "array" ->
            IF Len(v.a) = 0 THEN Half(0)
            ELSE IF Len(v.a) > 1 THEN NaN
            ELSE IF v.a[1].t \in {"undefined", "null"} THEN Half(0)
            ELSE IF v.a[1].t \in {"number", "string", "array"} THEN ToNumber(v.a[1])
            ELSE NaN
      [] OTHER -> NaN

\* the switch on this.rounding
ApplyRounding(rounding, value) ==
    CASE rounding = Lit("ceil") -> MathCeil(ToNumber(value))
      [] rounding = Lit("floor") -> MathFloor(ToNumber(value))
      [] rounding = Lit("round") -> MathRound(ToNumber(value))
      [] OTHER -> value

\* NumberSchema.transform: the base pass is called without the context
NumberTransform(m, id, value, context) ==
    SchemaTransform(m, id, ApplyRounding(m.heap[id].rounding, value), Undef)

DateTransform(m, id, value, context) ==
    LET ctx == IF context = Undef THEN EmptyObj ELSE context
    IN  IF TypeOf(value) \in {"string", "number"} \/ value.t = "date"
        THEN SchemaTransform(m, id, NewDate(value), ctx)
        ELSE SchemaTransform(m, id, value, ctx)

RECURSIVE Transform(_, _, _, _)
RECURSIVE MappedObjectTransformLoop(_, _, _, _, _, _)
RECURSIVE OrTransformLoop(_, _, _, _, _)
RECURSIVE AndTransformLoop(_, _, _, _, _)
RECURSIVE TupleTransformLoop(_, _, _, _, _, _)
RECURSIVE ArrayTransformLoop(_, _, _, _, _, _)

\* MappedObjectSchema.transform: the loop over the declared fields, from field i
MappedObjectTransformLoop(m, id, value, context, i, obj) ==
    LET fields == m.heap[id].fields
        key == fields[i].key
        res == Transform(m, fields[i].schema, Get(value, key, m.protos), context)
    IN  IF i > Len(fields) THEN SchemaTransform(m, id, Obj(obj), context)
        ELSE IF IsThrow(res.r) THEN res
        ELSE MappedObjectTransformLoop(res.m, id, value, context, i + 1,
                                       Put(obj, key, res.r))

\* MappedObjectSchema.transform filling a copy of the input instead of {}
MappedObjectTransformKeep(m, id, value, context) ==
    LET ctx == IF context = Undef THEN EmptyObj ELSE context
    IN  IF TypeOf(value) = "object" /\ value # Null
        THEN MappedObjectTransformLoop(m, id, value, ctx, 1, Members(value, m.protos))
        ELSE SchemaTransform(m, id, value, ctx)

MappedObjectTransform(m, id, value, context) ==
    LET ctx == IF context = Undef THEN EmptyObj ELSE context
    IN  IF TypeOf(value) = "object" /\ value # Null
        THEN MappedObjectTransformLoop(m, id, value, ctx, 1, <<>>)
        ELSE SchemaTransform(m, id, value, ctx)

\* the search of OrSchema.transform without its break
RECURSIVE OrTransformLoopNoBreak(_, _, _, _, _)
OrTransformLoopNoBreak(m, id, value, context, i) ==
    LET schemas == m.heap[id].schemas
        ok == Validate(m, schemas[i], value, EmptyObj)
        res == Transform(ok.m, schemas[i], value, context)
    IN  IF i > Len(schemas) THEN SchemaTransform(m, id, value, context)
        ELSE IF IsThrow(ok.r) THEN ok
        ELSE IF ok.r = Undef
             THEN IF IsThrow(res.r) THEN res
                  ELSE OrTransformLoopNoBreak(res.m, id, res.r, context, i + 1)
        ELSE OrTransformLoopNoBreak(ok.m, id, value, context, i + 1)

\* OrSchema.transform: the search for the matching child, from child i
OrTransformLoop(m, id, value, context, i) ==
    LET schemas == m.heap[id].schemas
        ok == Validate(m, schemas[i], value, EmptyObj)
        res == Transform(ok.m, schemas[i], value, context)
    IN  IF i > Len(schemas) THEN SchemaTransform(m, id, value, context)
        ELSE IF IsThrow(ok.r) THEN ok
        ELSE IF ok.r = Undef
             THEN IF IsThrow(res.r) THEN res
                  ELSE SchemaTransform(res.m, id, res.r, context)
        ELSE OrTransformLoop(ok.m, id, value, context, i + 1)

OrTransform(m, id, value, context) ==
    OrTransformLoop(m, id, value, IF context = Undef THEN EmptyObj ELSE context, 1)

\* the loop of AndSchema.transform handing every child the caller's value
RECURSIVE AndTransformLoopSameInput(_, _, _, _, _)
AndTransformLoopSameInput(m, id, value, context, i) ==
    LET schemas == m.heap[id].schemas
        res == Transform(m, schemas[i], value, context)
    IN  IF i > Len(schemas) THEN SchemaTransform(m, id, value, context)
        ELSE IF IsThrow(res.r) THEN res
        ELSE IF i = Len(schemas) THEN SchemaTransform(res.m, id, res.r, context)
        ELSE AndTransformLoopSameInput(res.m, id, value, context, i + 1)

\* AndSchema.transform: the loop over the children, from child i
AndTransformLoop(m, id, value, context, i) ==
    LET schemas == m.heap[id].schemas
        res == Transform(m, schemas[i], value, context)
    IN  IF i > Len(schemas) THEN SchemaTransform(m, id, value, context)
        ELSE IF IsThrow(res.r) THEN res
        ELSE AndTransformLoop(res.m, id, res.r, context, i + 1)

AndTransform(m, id, value, context) ==
    AndTransformLoop(m, id, value, IF context = Undef THEN EmptyObj ELSE context, 1)

\* TupleSchema.transform: the loop over the positions, from position i
TupleTransformLoop(m, id, value, context, i, arr) ==
    LET schemas == m.heap[id].schemas
        res == Transform(m, schemas[i + 1], At(value, i), context)
    IN  IF ~(i < Len(schemas)) THEN SchemaTransform(m, id, Arr(arr), context)
        ELSE IF IsThrow(res.r) THEN res
        ELSE TupleTransformLoop(res.m, id, value, context, i + 1, Append(arr, res.r))

TupleTransform(m, id, value, context) ==
    LET ctx == IF context = Undef THEN EmptyObj ELSE context
    IN  IF IsArray(value) THEN TupleTransformLoop(m, id, value, ctx, 0, <<>>)
        ELSE SchemaTransform(m, id, value, ctx)

\* value[i] of an array or a string
Item(value, i) == IF value.t = "string" THEN Str(<<value.s[i + 1]>>) ELSE At(value, i)

\* ArraySchema.transform: the loop over the elements, from element i of n
ArrayTransformLoop(m, id, value, context, i, arr) ==
    LET n == Length(value, m.protos).n \div 2
        res == Transform(m, m.heap[id].schema, Item(value, i), context)
    IN  IF ~(i < n) THEN SchemaTransform(m, id, Arr(arr), context)
        ELSE IF IsThrow(res.r) THEN res
        ELSE ArrayTransformLoop(res.m, id, value, context, i + 1, Append(arr, res.r))

\* ArraySchema.transform: value.length is read whatever value is; new Array(x)
\* is the one-element array [x] for an x that is not a number, and the loop
\* over i < x then runs no step
ArrayTransform(m, id, value, context) ==
    LET ctx == IF context = Undef THEN EmptyObj ELSE context
        len == Length(value, m.protos)
    IN  IF IsThrow(len) THEN Ret(len, m)
        ELSE IF len.t # "number" THEN SchemaTransform(m, id, Arr(<<len>>), ctx)
        ELSE IF len.nan \/ len.n < 0 \/ ~IsInteger(len) THEN Ret(Thrown("RangeError"), m)
        ELSE ArrayTransformLoop(m, id, value, ctx, 0, <<>>)

\* the dictionary's transform: the map rebuilt with the key schema's transform
\* of each key and the value schema's transform of each value
RECURSIVE MappedTransformLoop(_, _, _, _, _, _)
MappedTransformLoop(m, id, value, context, keys, obj) ==
    LET s == m.heap[id]
        key == Head(keys)
        kres == Transform(m, s.keySchema, KeyString(key), context)
        vres == Transform(kres.m, s.valueSchema, KeyedMembers(value, m.protos)[key], context)
    IN  IF keys = <<>> THEN SchemaTransform(m, id, Obj(obj), context)
        ELSE IF IsThrow(kres.r) THEN kres
        ELSE IF IsThrow(vres.r) THEN vres
        ELSE MappedTransformLoop(vres.m, id, value, context, Tail(keys),
                                 Put(obj, IF kres.r.t = "string" THEN KeyOf(kres.r.s) ELSE key,
                                     vres.r))

MappedTransform(m, id, value, context) ==
    LET ctx == IF context = Undef THEN EmptyObj ELSE context
    IN  IF TypeOf(value) = "object" /\ value # Null
        THEN MappedTransformLoop(m, id, value, ctx, Keys(value, m.protos), <<>>)
        ELSE SchemaTransform(m, id, value, ctx)

\* schema.transform(value, context) on instance id: the method of its class
Transform(m0, id, value, context) ==
    LET m == Visit(m0, "transform", id)
        kind == m.heap[id].kind
    IN  CASE kind = "String" -> StringTransform(m, id, value, context)
          [] kind = "Number" -> NumberTransform(m, id, value, context)
          [] kind = "MappedObject" -> MappedObjectTransform(m, id, value, context)
          [] kind = "Or" -> OrTransform(m, id, value, context)
          [] kind = "And" -> AndTransform(m, id, value, context)
          [] kind = "Tuple" -> TupleTransform(m, id, value, context)
          [] kind = "Array" -> ArrayTransform(m, id, value, context)
          [] kind = "Date" -> DateTransform(m, id, value, context)
          [] kind = "Mapped" -> MappedTransform(m, id, value, context)
          [] OTHER -> SchemaTransform(m, id, value, context)

(***************************************************************************)
(* The programs: the schemas a caller builds with the factory functions    *)
(* and the builder methods, each a heap whose last instance is the root.   *)
(***************************************************************************)
Root == Len(heap)

\* the objects registered with doSetPrototype, each with one method
ProtoInit == [P |-> [greet |-> Fn("greet")]]

Field(key, schema) == [key |-> key, schema |-> schema]

Leaves ==
    { StringSchema(Undef),
      StringSchema(Lit("Enter a name")),
      Max(Min(StringSchema(Undef), Num(1), Lit("Min")), Num(2), Lit("Max")),
      Regex(StringSchema(Undef), Str(<<"a">>), Lit("Invalid")),
      Regex(StringSchema(Undef),
            [t |-> "regexp", src |-> <<"a">>, global |-> TRUE, lastIndex |-> 1], Undef),
      DoCase(StringSchema(Undef), Lit("upper")),
      DoCase(StringSchema(Undef), Lit("lower")),
      DoCase(StringSchema(Undef), Lit("capitalize")),
      DoCase(StringSchema(Undef), Lit("kebab-case")),
      DoTrim(DoCase(StringSchema(Undef), Lit("kebab-lower-case")), Bool(FALSE)),
      DoTrim(StringSchema(Undef), Bool(TRUE)),
      DoSetWhenEmpty(StringSchema(Undef), Str(<<"a">>)),
      DoCustom(StringSchema(Undef), Fn("seen")),
      NumberSchema(Undef),
      NumberSchema(Lit("Must be number")),
      Float(NumberSchema(Undef), Undef, Undef),
      Max(Min(NumberSchema(Undef), Num(1), Lit("Min")), Num(2), Lit("Max")),
      DoRound(NumberSchema(Undef), Undef),
      DoRound(NumberSchema(Undef), Lit("ceil")),
      DoRound(NumberSchema(Undef), Lit("round")),
      Max(Min(Float(NumberSchema(Undef), Undef, Undef), Num(2), Lit("Min")), Num(1), Lit("Max")),
      Max(NumberSchema(Undef), Num(0), Lit("Max")),
      Max(Float(NumberSchema(Undef), Undef, Undef), Num(1), Lit("Max")),
      Float(NumberSchema(Undef), Bool(FALSE), Lit("Whole")),
      DoSetWhenEmpty(DoCustom(NumberSchema(Undef), Fn("seen")), Num(1)),
      DoSetWhenEmpty(DoRound(NumberSchema(Undef), Lit("floor")), Num(1)),
      DoSetWhenEmpty(DoCustom(StringSchema(Undef), Fn("blank")), Str(<<"a">>)),
      DoSetPrototype(DoSetWhenEmpty(ObjectSchema(Undef), EmptyObj), Ref("P")),
      BooleanSchema(Undef),
      ValueSchema(Str(<<"a">>), Undef),
      ValueSchema(Num(1), Lit("Must be one")),
      ObjectSchema(Undef),
      ObjectSchema(Lit("Must exist")),
      DoSetPrototype(ObjectSchema(Undef), Ref("P")),
      DateSchema(Undef, Undef),
      DateSchema(Lit("Enter a date"), Lit("Bad date")),
      CustomSchema("accept", Undef),
      CustomSchema("reject", Undef),
      CustomSchema("nonNull", Undef),
      CustomSchema("whenAbort", Lit("Enter a value")) }

Composites ==
    { \* object({a: string(), b: number()})
      <<StringSchema(Undef), NumberSchema(Undef),
        MappedObjectSchema(<<Field("a", 1), Field("b", 2)>>, Undef)>>,
      \* object({b: number().optional(), a: string().min(1)}, "Specify value")
      <<Optional(NumberSchema(Undef)), Min(StringSchema(Undef), Num(1), Undef),
        MappedObjectSchema(<<Field("b", 1), Field("a", 2)>>, Lit("Specify value"))>>,
      \* object({a: object({a: string().doCase("upper"), b: boolean().optional()})})
      <<DoCase(StringSchema(Undef), Lit("upper")), Optional(BooleanSchema(Undef)),
        MappedObjectSchema(<<Field("a", 1), Field("b", 2)>>, Undef),
        MappedObjectSchema(<<Field("a", 3)>>, Undef)>>,
      \* object({a: string()}).doSetPrototype(P)
      <<StringSchema(Undef),
        DoSetPrototype(MappedObjectSchema(<<Field("a", 1)>>, Undef), Ref("P"))>>,
      \* object({}), no declared field
      <<MappedObjectSchema(<<>>, Undef)>>,
      \* array(boolean())
      <<BooleanSchema(Undef), ArraySchema(1, Undef)>>,
      \* array(string().regex(/a/g)).min(1).max(2)
      <<Regex(StringSchema(Undef),
              [t |-> "regexp", src |-> <<"a">>, global |-> TRUE, lastIndex |-> 0], Undef),
        Max(Min(ArraySchema(1, Undef), Num(1), Undef), Num(2), Undef)>>,
      \* array(object({a: string()}))
      <<StringSchema(Undef), MappedObjectSchema(<<Field("a", 1)>>, Undef),
        ArraySchema(2, Undef)>>,
      \* tuple([string(), number()])
      <<StringSchema(Undef), NumberSchema(Undef), TupleSchema(<<1, 2>>, Undef)>>,
      \* tuple([string(), number().optional()])
      <<StringSchema(Undef), Optional(NumberSchema(Undef)), TupleSchema(<<1, 2>>, Undef)>>,
      \* tuple([string(), custom(accept)])
      <<StringSchema(Undef), CustomSchema("accept", Undef), TupleSchema(<<1, 2>>, Undef)>>,
      \* string().or(number())
      <<StringSchema(Undef), NumberSchema(Undef), OrSchema(<<1, 2>>, Undef)>>,
      \* or([value("a"), number().doRound(), string().doCase("upper")], "Choose")
      <<ValueSchema(Str(<<"a">>), Undef), DoRound(Float(NumberSchema(Undef), Undef, Undef), Undef),
        DoCase(StringSchema(Undef), Lit("upper")), OrSchema(<<1, 2, 3>>, Lit("Choose"))>>,
      \* or([array(boolean()).optional(), object({a: string()})])
      <<BooleanSchema(Undef), Optional(ArraySchema(1, Undef)), StringSchema(Undef),
        MappedObjectSchema(<<Field("a", 3)>>, Undef), OrSchema(<<2, 4>>, Undef)>>,
      \* or([string().regex(/a/g), string().min(1).nullable()]).doSetWhenEmpty("a")
      <<Regex(StringSchema(Undef),
              [t |-> "regexp", src |-> <<"a">>, global |-> TRUE, lastIndex |-> 0], Undef),
        Nullable(Min(StringSchema(Undef), Num(1), Undef)),
        DoSetWhenEmpty(OrSchema(<<1, 2>>, Undef), Str(<<"a">>))>>,
      \* string().min(1).and(string().regex("a"))
      <<Min(StringSchema(Undef), Num(1), Undef),
        Regex(StringSchema(Undef), Str(<<"a">>), Undef), AndSchema(<<1, 2>>, Undef)>>,
      \* and([string(), string().doTrim(false).doCase("kebab-case")])
      <<StringSchema(Undef),
        DoCase(DoTrim(StringSchema(Undef), Bool(FALSE)), Lit("kebab-case")),
        AndSchema(<<1, 2>>, Undef)>>,
      \* and([string().doCase("upper"), string()]).doSetWhenEmpty("a")
      <<DoCase(StringSchema(Undef), Lit("upper")), StringSchema(Undef),
        DoSetWhenEmpty(AndSchema(<<1, 2>>, Undef), Str(<<"a">>))>>,
      \* mapped(value("a").or(value("b")), string())
      <<ValueSchema(Str(<<"a">>), Undef), ValueSchema(Str(<<"b">>), Undef),
        OrSchema(<<1, 2>>, Undef), StringSchema(Undef), MappedSchema(3, 4)>>,
      \* mapped(string().doCase("upper"), object({a: string()}))
      <<DoCase(StringSchema(Undef), Lit("upper")), StringSchema(Undef),
        MappedObjectSchema(<<Field("a", 2)>>, Undef), MappedSchema(1, 3)>>,
      \* and([object(), object({a: string()})])
      <<ObjectSchema(Undef), StringSchema(Undef),
        MappedObjectSchema(<<Field("a", 2)>>, Undef), AndSchema(<<1, 3>>, Undef)>> }

\* the root made optional() and nullable(), or not
WithRoot(h, opt, nul) ==
    LET s1 == IF opt THEN Optional(h[Len(h)]) ELSE h[Len(h)]
        s2 == IF nul THEN Nullable(s1) ELSE s1
    IN  [h EXCEPT ![Len(h)] = s2]

Catalogue ==
    { WithRoot(h, opt, nul) :
        h \in {<<s>> : s \in Leaves} \cup Composites, opt \in BOOLEAN, nul \in BOOLEAN }

(***************************************************************************)
(* The values and contexts the callers pass.                               *)
(***************************************************************************)
Primitives ==
    { Undef, Null, Bool(TRUE), Bool(FALSE), Num(0), Num(1), Half(1), Half(3), NaN,
      Str(<<>>), Str(<<" ">>), Str(<<"a">>), Str(<<" ", "A">>), Str(<<"a", " ", "-">>),
      Str(<<"ß", "a">>),
      DateOf(0) }

FieldValues == {Str(<<"a">>), Num(1)}

ElementValues == {Bool(TRUE), Str(<<"a">>), Num(1)}

Objects ==
    { Obj(f) : f \in UNION {[K -> FieldValues] : K \in SUBSET {"a", "b", "x"}} }
    \cup { Obj([a |-> Null, b |-> Half(3)]),
           Obj([a |-> Undef, x |-> Undef]),
           Obj([a |-> Obj([a |-> Str(<<" ", "a">>), x |-> Num(1)]), x |-> Num(1)]),
           Obj([a |-> Obj([a |-> Num(1), b |-> Num(1)]), b |-> Num(1)]) }

Arrays ==
    { Arr(a) : a \in UNION {[1..n -> ElementValues] : n \in 0..MaxArrayLen} }
    \cup { Arr(<<Str(<<"a">>), Num(1), Bool(TRUE)>>),
           Arr(<<Bool(TRUE), Num(0), Str(<<>>)>>),
           Arr(<<Str(<<"a">>), Undef>>),
           Arr(<<Obj([a |-> Str(<<"a">>), x |-> Num(1)]), Obj([x |-> Num(1)])>>) }

Values == Primitives \cup Objects \cup Arrays

ValidationContexts ==
    {Undef, EmptyObj, Obj([abortEarly |-> Bool(TRUE)]), Obj([abortEarly |-> Bool(FALSE)])}

TransformationContexts ==
    {Undef, EmptyObj, Obj([trimStrings |-> Bool(TRUE)]), Obj([trimStrings |-> Bool(FALSE)])}

(***************************************************************************)
(* The state machine: the caller's invocations on the root of a built      *)
(* schema.                                                                 *)
(***************************************************************************)
\* v as the caller sees it: the registered objects it refers to, by content
\* (a registered object met again inside itself stays a reference)
RECURSIVE DerefWithin(_, _, _)
DerefWithin(v, ps, seen) ==
    CASE v.t = "ref" ->
            IF v.p \in seen THEN v
            ELSE Obj([k \in DOMAIN ps[v.p] |-> DerefWithin(ps[v.p][k], ps, seen \cup {v.p})])
      [] v.t = "object" -> Obj([k \in DOMAIN v.o |-> DerefWithin(v.o[k], ps, seen)])
      [] v.t = "array" -> Arr([i \in 1..Len(v.a) |-> DerefWithin(v.a[i], ps, seen)])
      [] OTHER -> v

Deref(v, ps) == DerefWithin(v, ps, {})

NoCall == [op |-> "none"]

Machine == [heap |-> heap, protos |-> protos, trace |-> <<>>]

Record(op, value, context, res) ==
    [op |-> op, value |-> value, context |-> context, result |-> res.r,
     shown |-> Deref(res.r, res.m.protos), trace |-> res.m.trace]

Init ==
    /\ heap \in Catalogue
    /\ protos = ProtoInit
    /\ last = NoCall
    /\ built = [heap |-> heap, protos |-> protos]
    /\ called = <<>>

\* root.validate(value, context)
ValidateCall(value, context) ==
    LET res == Validate(Machine, Root, value, context)
    IN  /\ heap' = res.m.heap
        /\ protos' = res.m.protos
        /\ last' = Record("validate", value, context, res)
        /\ UNCHANGED <<built, called>>

\* root.transform(value, context)
TransformCall(value, context) ==
    LET res == Transform(Machine, Root, value, context)
    IN  /\ heap' = res.m.heap
        /\ protos' = res.m.protos
        /\ last' = Record("transform", value, context, res)
        /\ UNCHANGED <<built, called>>

\* the first invocation on a built schema
FirstValidate(value, context) == last = NoCall /\ ValidateCall(value, context)

FirstTransform(value, context) == last = NoCall /\ TransformCall(value, context)

Next ==
    \/ \E value \in Values, context \in ValidationContexts :
           FirstValidate(value, context)
    \/ \E value \in Values, context \in TransformationContexts :
           FirstTransform(value, context)

Spec == Init /\ [][Next]_vars

(***************************************************************************)
(* Repeated use: any sequence of invocations on the root of a built        *)
(* schema.                                                                 *)
(***************************************************************************)
GlobalRegex == [t |-> "regexp", src |-> <<"a">>, global |-> TRUE, lastIndex |-> 0]

UseCatalogue ==
    { \* string().regex(/a/g)
      <<Regex(StringSchema(Undef), GlobalRegex, Undef)>>,
      \* string().regex("a")
      <<Regex(StringSchema(Undef), Str(<<"a">>), Undef)>>,
      \* object().doSetPrototype(P)
      <<DoSetPrototype(ObjectSchema(Undef), Ref("P"))>>,
      \* object({a: string()}).doSetPrototype(P)
      <<StringSchema(Undef),
        DoSetPrototype(MappedObjectSchema(<<Field("a", 1)>>, Undef), Ref("P"))>>,
      \* object({a: string().doCase("upper"), b: number().optional()})
      <<DoCase(StringSchema(Undef), Lit("upper")), Optional(NumberSchema(Undef)),
        MappedObjectSchema(<<Field("a", 1), Field("b", 2)>>, Undef)>>,
      \* array(string().regex(/a/g))
      <<Regex(StringSchema(Undef), GlobalRegex, Undef), ArraySchema(1, Undef)>>,
      \* array(object().doSetPrototype(P))
      <<DoSetPrototype(ObjectSchema(Undef), Ref("P")), ArraySchema(1, Undef)>>,
      \* or([string().regex(/a/g), number()])
      <<Regex(StringSchema(Undef), GlobalRegex, Undef), NumberSchema(Undef),
        OrSchema(<<1, 2>>, Undef)>> }

UseValues ==
    { Undef, Num(1), Str(<<"a">>), Str(<<"a", "a">>),
      Obj([a |-> Str(<<"a">>)]), Obj([b |-> Num(1)]),
      Arr(<<Str(<<"a">>)>>), Arr(<<Obj([a |-> Num(1)]), Obj([b |-> Num(1)])>>),
      Arr(<<Ref("P"), Obj([b |-> Num(1)])>>) }

InitUse ==
    /\ heap \in UseCatalogue
    /\ protos = ProtoInit
    /\ last = NoCall
    /\ built = [heap |-> heap, protos |-> protos]
    /\ called = <<>>

NextUse ==
    \/ \E value \in UseValues, context \in {Undef, Obj([abortEarly |-> Bool(FALSE)])} :
           ValidateCall(value, context)
    \/ \E value \in UseValues, context \in {Undef, Obj([trimStrings |-> Bool(FALSE)])} :
           TransformCall(value, context)

SpecUse == InitUse /\ [][NextUse]_vars

(***************************************************************************)
(* Construction: a chain of builder calls on a new instance.  called is    *)
(* the list of the builders called so far on it.                           *)
(***************************************************************************)
NewInstances ==
    { <<StringSchema(Undef)>>,
      <<NumberSchema(Undef)>>,
      <<BooleanSchema(Undef)>>,
      <<BooleanSchema(Undef), ArraySchema(1, Undef)>> }

Messages == {Undef, Lit("Message")}

Bounds == {Num(0), Num(1)}

\* what doSetPrototype is given: an object, or a value of the schema's type
PrototypesFor(s) ==
    {Ref("P")}
    \cup (IF s.kind = "Number" THEN {Num(0)} ELSE {})
    \cup (IF s.kind = "String" THEN {Str(<<>>)} ELSE {})
    \cup (IF s.kind = "Boolean" THEN {Bool(FALSE)} ELSE {})
    \cup (IF s.isNullable THEN {Null} ELSE {})

Casings ==
    {Lit("lower"), Lit("upper"), Lit("capitalize"), Lit("kebab-case"),
     Lit("kebab-lower-case")}

Roundings == {Lit("ceil"), Lit("round"), Lit("floor")}

InitBuild ==
    /\ heap \in NewInstances
    /\ protos = ProtoInit
    /\ last = NoCall
    /\ built = [heap |-> heap, protos |-> protos]
    /\ called = <<>>

\* a call of builder name on the root, giving r: the instance, or an error
Builder(name, args, r) ==
    /\ Len(called) < MaxBuilderCalls
    /\ heap' = IF IsThrow(r) THEN heap ELSE [heap EXCEPT ![Root] = r]
    /\ last' = [op |-> "builder", name |-> name, args |-> args,
                threw |-> IsThrow(r), before |-> heap[Root],
                repeated |-> \E i \in 1..Len(called) : called[i] = name]
    /\ called' = Append(called, name)
    /\ UNCHANGED <<protos, built>>

OptionalCall == Builder("optional", <<>>, Optional(heap[Root]))

NullableCall == Builder("nullable", <<>>, Nullable(heap[Root]))

DoSetWhenEmptyCall ==
    \E v \in {Str(<<"a">>), Num(0)} :
        Builder("doSetWhenEmpty", <<v>>, DoSetWhenEmpty(heap[Root], v))

DoCustomCall ==
    \E f \in Transformers : Builder("doCustom", <<Fn(f)>>, DoCustom(heap[Root], Fn(f)))

DoSetPrototypeCall ==
    \E p \in PrototypesFor(heap[Root]) :
        Builder("doSetPrototype", <<p>>, DoSetPrototype(heap[Root], p))

MinCall ==
    /\ heap[Root].kind \in SizeKinds
    /\ \E n \in Bounds, msg \in Messages :
           Builder("min", <<n, msg>>, Min(heap[Root], n, msg))

MaxCall ==
    /\ heap[Root].kind \in SizeKinds
    /\ \E n \in Bounds, msg \in Messages :
           Builder("max", <<n, msg>>, Max(heap[Root], n, msg))

RegexCall ==
    /\ heap[Root].kind = "String"
    /\ \E re \in {Str(<<"a">>), GlobalRegex}, msg \in Messages :
           Builder("regex", <<re, msg>>, Regex(heap[Root], re, msg))

DoTrimCall ==
    /\ heap[Root].kind = "String"
    /\ \E b \in {Undef, Bool(TRUE), Bool(FALSE)} :
           Builder("doTrim", <<b>>, DoTrim(heap[Root], b))

DoCaseCall ==
    /\ heap[Root].kind = "String"
    /\ \E c \in Casings : Builder("doCase", <<c>>, DoCase(heap[Root], c))

FloatCall ==
    /\ heap[Root].kind = "Number"
    /\ \E b \in {Undef, Bool(TRUE), Bool(FALSE)}, msg \in Messages :
           Builder("float", <<b, msg>>, Float(heap[Root], b, msg))

DoRoundCall ==
    /\ heap[Root].kind = "Number"
    /\ \E r \in Roundings \cup {Undef} :
           Builder("doRound", <<r>>, DoRound(heap[Root], r))

NextBuild ==
    \/ OptionalCall \/ NullableCall \/ DoSetWhenEmptyCall \/ DoCustomCall
    \/ DoSetPrototypeCall \/ MinCall \/ MaxCall \/ RegexCall \/ DoTrimCall
    \/ DoCaseCall \/ FloatCall \/ DoRoundCall

SpecBuild == InitBuild /\ [][NextBuild]_vars

(***************************************************************************)
(* The claims.                                                             *)
(***************************************************************************)
\* the root as it was built, and the machine as it was built
Sch == built.heap[Root]

BuiltMachine == [heap |-> built.heap, protos |-> built.protos, trace |-> <<>>]

Validated == last.op = "validate"

Transformed == last.op = "transform"

BuiltInKinds ==
    {"String", "Number", "Boolean", "Value", "Date", "Object", "MappedObject",
     "Array", "Tuple", "Or", "And"}

\* what the nullability pre-check answers for undefined and null
NullabilityAnswer ==
    IF last.value = Undef
    THEN (IF Sch.isOptional THEN Undef ELSE Sch.requiredMessage)
    ELSE (IF Sch.isNullable THEN Undef ELSE Sch.noNullMessage)

\* the answer is given by the root alone: no other instance is called and no
\* regex is run
DecidedAtRoot == last.trace = <<<<"validate", Root>>>> /\ heap = built.heap

C2_ValidateNeverThrows ==
    (Validated /\ Sch.kind \in BuiltInKinds)
        => last.result.t \in {"undefined", "literal", "errormap"}

C2_Witness ==
    /\ Validated
    /\ Sch.kind = "MappedObject"
    /\ Len(Sch.fields) = 2
    /\ last.value = Null
    /\ last.result = Lit("Null is not acceptable")

\* C3: the second call of a builder on an instance throws, whatever its
\* arguments, and leaves the instance as the first call set it.
C3_SecondCallThrows ==
    (last.op = "builder" /\ last.repeated)
        => (last.threw /\ heap[Root] = last.before)

\* C3, for the builders other than doSetPrototype (which the code gets
\* right): a supporting fact
C3_OtherBuildersThrow ==
    (last.op = "builder" /\ last.repeated /\ last.name # "doSetPrototype")
        => (last.threw /\ heap[Root] = last.before)

\* C4: use does not change a built schema: after any sequence of validate
\* and transform calls the instances, their regex objects and the objects
\* registered with doSetPrototype are as they were built.
C4_UseLeavesSchemaAsBuilt == heap = built.heap /\ protos = built.protos

\* what the last invocation returns when it is the only one ever made on the
\* schema as built
AloneShown ==
    LET res == IF Validated
               THEN Validate(BuiltMachine, Root, last.value, last.context)
               ELSE Transform(BuiltMachine, Root, last.value, last.context)
    IN  Deref(res.r, res.m.protos)

\* C5: every invocation returns what it would return if it were the only
\* invocation ever made on the schema.
C5_ResultAsIfAlone == (Validated \/ Transformed) => last.shown = AloneShown

\* the context the root hands to its children
ChildContext == IF last.context = Undef THEN EmptyObj ELSE last.context

NonNullObject(v) == TypeOf(v) = "object" /\ v # Null

NoHooks(s) ==
    ~Truthy(s.customTransformer) /\ ~Truthy(s.whenEmptyValue) /\ ~Truthy(s.setPrototype)

\* the calls of op made on the instances ids, in the order they were made
CallsOn(op, ids) == SelectSeq(last.trace, LAMBDA e : e[1] = op /\ e[2] \in ids)

\* the fixed-field object at the root: its keys, what the schema of field i
\* answers for the input's value at its key, and the fields that fail
FieldKey(i) == Sch.fields[i].key

DeclaredKeys == {FieldKey(i) : i \in 1..Len(Sch.fields)}

FieldIndex(k) == CHOOSE i \in 1..Len(Sch.fields) : FieldKey(i) = k

FieldInput(i) == Get(last.value, FieldKey(i), built.protos)

FieldError(i) ==
    Validate(BuiltMachine, Sch.fields[i].schema, FieldInput(i), ChildContext).r

FailingFields == {i \in 1..Len(Sch.fields) : FieldError(i) # Undef}

FirstFailing == CHOOSE i \in FailingFields : \A j \in FailingFields : i <= j

FailFastContexts == {Undef, EmptyObj, Obj([abortEarly |-> Bool(TRUE)])}

\* C6: fixed-field object, abortEarly true or not given, non-null object input
\* with a failing field: the result is the map with the one entry of the first
\* failing field in declaration order, holding that field's error; the fields
\* declared after it are not validated.
C6_FailFastFirstField ==
    (/\ Validated
     /\ Sch.kind = "MappedObject"
     /\ NonNullObject(last.value)
     /\ last.context \in FailFastContexts
     /\ FailingFields # {})
        => /\ last.result = ErrMap(FieldKey(FirstFailing) :> FieldError(FirstFailing))
           /\ CallsOn("validate", {Sch.fields[j].schema : j \in 1..Len(Sch.fields)})
                  = [j \in 1..FirstFailing |-> <<"validate", Sch.fields[j].schema>>]

C6_Witness ==
    /\ Validated
    /\ Sch.kind = "MappedObject"
    /\ last.context = Undef
    /\ last.value = Obj([a |-> Num(1), b |-> Str(<<"a">>)])
    /\ FailingFields = {1, 2}
    /\ last.result = ErrMap([a |-> Lit("Must be string")])

\* C7: fixed-field object, abortEarly false, non-null object input: the keys
\* of the result are exactly the declared fields whose schema rejects the
\* input's value, each with that schema's error; the result is undefined when
\* no declared field fails; undeclared keys of the input never appear.
C7_CollectAllFields ==
    (/\ Validated
     /\ Sch.kind = "MappedObject"
     /\ NonNullObject(last.value)
     /\ last.context = Obj([abortEarly |-> Bool(FALSE)]))
        => last.result =
               IF FailingFields = {} THEN Undef
               ELSE ErrMap([k \in {FieldKey(i) : i \in FailingFields} |->
                               FieldError(FieldIndex(k))])

C7_Witness ==
    /\ Validated
    /\ Sch.kind = "MappedObject"
    /\ last.context = Obj([abortEarly |-> Bool(FALSE)])
    /\ last.value = Obj([a |-> Num(1), b |-> Str(<<"a">>), x |-> Num(1)])
    /\ last.result = ErrMap([a |-> Lit("Must be string"), b |-> Lit("Must be number")])

\* what the schema of field i makes of the input's value at its key
FieldOutput(i) ==
    Transform(BuiltMachine, Sch.fields[i].schema, FieldInput(i), ChildContext).r

\* out, made by instance id, has the declared keys only wherever a
\* fixed-field object schema without hooks made an object
RECURSIVE OnlyDeclared(_, _)
OnlyDeclared(id, out) ==
    LET s == built.heap[id]
    IN  (s.kind = "MappedObject" /\ NoHooks(s) /\ out.t = "object")
            => /\ DOMAIN out.o = {s.fields[i].key : i \in 1..Len(s.fields)}
               /\ \A i \in 1..Len(s.fields) :
                      OnlyDeclared(s.fields[i].schema, out.o[s.fields[i].key])

\* C8: fixed-field object without hooks, non-null object input: the output has
\* exactly the declared keys, each holding what the field's schema makes of
\* the input's value at that key (undefined when absent); undeclared keys of
\* the input are dropped at every nesting level of fixed-field objects.
C8_TransformDropsUndeclared ==
    (/\ Transformed
     /\ Sch.kind = "MappedObject"
     /\ NoHooks(Sch)
     /\ NonNullObject(last.value)
     /\ ~IsThrow(last.result))
        => /\ last.result.t = "object"
           /\ DOMAIN last.result.o = DeclaredKeys
           /\ \A i \in 1..Len(Sch.fields) : last.result.o[FieldKey(i)] = FieldOutput(i)
           /\ OnlyDeclared(Root, last.result)

C8_Witness ==
    /\ Transformed
    /\ Sch.kind = "MappedObject"
    /\ last.value = Obj([a |-> Obj([a |-> Str(<<" ", "a">>), x |-> Num(1)]), x |-> Num(1)])
    /\ last.result = Obj([a |-> Obj([a |-> Str(<<"A">>), b |-> Undef])])

\* the Or at the root: what child i answers for the value, the children that
\* accept it, and the first of them
ChildError(i) == Validate(BuiltMachine, Sch.schemas[i], last.value, ChildContext).r

PassingChildren == {i \in 1..Len(Sch.schemas) : ChildError(i) = Undef}

FirstPassing == CHOOSE i \in PassingChildren : \A j \in PassingChildren : i <= j

Children == {Sch.schemas[i] : i \in 1..Len(Sch.schemas)}

\* C9: Or validate of a value that is neither undefined nor null: the children
\* are tried in declared order up to the first that accepts the value, and the
\* result is then undefined; when none accepts it, the result is the error of
\* the last child.
C9_OrValidateLastError ==
    (Validated /\ Sch.kind = "Or" /\ last.value \notin {Undef, Null})
        => LET tried == IF PassingChildren # {} THEN FirstPassing ELSE Len(Sch.schemas)
           IN  /\ last.result = IF PassingChildren # {} THEN Undef
                                ELSE ChildError(Len(Sch.schemas))
               /\ CallsOn("validate", Children)
                      = [i \in 1..tried |-> <<"validate", Sch.schemas[i]>>]

C9_Witness ==
    /\ Validated
    /\ Sch.kind = "Or"
    /\ last.value = Bool(TRUE)
    /\ ChildError(1) = Lit("Must be string")
    /\ last.result = Lit("Must be number")

\* the children of the Or that validate the value under the empty context
MatchingChildren ==
    {i \in 1..Len(Sch.schemas) :
        Validate(BuiltMachine, Sch.schemas[i], last.value, EmptyObj).r = Undef}

FirstMatching == CHOOSE i \in MatchingChildren : \A j \in MatchingChildren : i <= j

ChildOutput(i) == Transform(BuiltMachine, Sch.schemas[i], last.value, ChildContext).r

\* the base pass of the root on v
BasePass(v) == SchemaTransform(BuiltMachine, Root, v, ChildContext).r

\* C10: Or transform: the value is transformed by the first child, in declared
\* order, that validates it under the empty context, and by no other child,
\* then by the base pass of the Or; when no child validates it, by the base
\* pass alone.
C10_OrTransformFirstMatch ==
    (Transformed /\ Sch.kind = "Or")
        => IF MatchingChildren = {}
           THEN /\ last.result = BasePass(last.value)
                /\ CallsOn("transform", Children) = <<>>
           ELSE /\ last.result = IF IsThrow(ChildOutput(FirstMatching))
                                 THEN ChildOutput(FirstMatching)
                                 ELSE BasePass(ChildOutput(FirstMatching))
                /\ CallsOn("transform", Children)
                       = <<<<"transform", Sch.schemas[FirstMatching]>>>>

C10_Witness ==
    /\ Transformed
    /\ Sch.kind = "Or"
    /\ Len(Sch.schemas) = 3
    /\ last.value = Half(3)
    /\ FirstMatching = 2
    /\ last.result = Num(1)

\* the children of the And at the root that reject the value, and the first
RejectingChildren == {i \in 1..Len(Sch.schemas) : ChildError(i) # Undef}

FirstRejecting == CHOOSE i \in RejectingChildren : \A j \in RejectingChildren : i <= j

\* C11: And validate of a value that is neither undefined nor null: the result
\* is the error of the first child, in declared order, that rejects the value,
\* the children after it are not consulted, and the result is undefined only
\* when every child accepts the value.
C11_AndValidateFirstError ==
    (Validated /\ Sch.kind = "And" /\ last.value \notin {Undef, Null})
        => LET tried == IF RejectingChildren # {} THEN FirstRejecting
                        ELSE Len(Sch.schemas)
           IN  /\ last.result = IF RejectingChildren # {} THEN ChildError(FirstRejecting)
                                ELSE Undef
               /\ CallsOn("validate", Children)
                      = [i \in 1..tried |-> <<"validate", Sch.schemas[i]>>]

C11_Witness ==
    /\ Validated
    /\ Sch.kind = "And"
    /\ last.value = Str(<<>>)
    /\ RejectingChildren = {1, 2}
    /\ ChildError(1) # ChildError(2)
    /\ last.result = ChildError(1)

\* the children of the And at the root applied one after the other, the first
\* i of them, each to what the one before it returned
RECURSIVE AndChain(_)
AndChain(i) ==
    IF i = 0 THEN Ret(last.value, BuiltMachine)
    ELSE LET prev == AndChain(i - 1)
         IN  IF IsThrow(prev.r) THEN prev
             ELSE Transform(prev.m, Sch.schemas[i], prev.r, ChildContext)

\* C12: And transform is the composition of its children's transforms in
\* declared order, each child receiving the previous child's output, followed
\* by the base pass of the And; without doCustom, doSetWhenEmpty and
\* doSetPrototype on the And it equals the composition itself.
C12_AndTransformComposes ==
    (Transformed /\ Sch.kind = "And")
        => LET chain == AndChain(Len(Sch.schemas))
           IN  /\ last.result = IF IsThrow(chain.r) THEN chain.r
                                ELSE SchemaTransform(chain.m, Root, chain.r, ChildContext).r
               /\ NoHooks(Sch) => last.result = chain.r

C12_Witness ==
    /\ Transformed
    /\ Sch.kind = "And"
    /\ NoHooks(Sch)
    /\ last.value = Str(<<" ", "A">>)
    /\ Transform(BuiltMachine, Sch.schemas[2], last.value, ChildContext).r = Str(<<"-", "A">>)
    /\ last.result = Str(<<"A">>)

\* the Array at the root: the state in which the item schema is asked about
\* element i, having been asked about the elements before it, what it then
\* answers, and the indices it rejects
RECURSIVE ElementRun(_)
ElementRun(i) ==
    IF i = 0 THEN BuiltMachine
    ELSE Validate(ElementRun(i - 1), Sch.schema, At(last.value, i - 1), ChildContext).m

ElementError(i) == Validate(ElementRun(i), Sch.schema, At(last.value, i), ChildContext).r

FailingIndices == {i \in 0..(Len(last.value.a) - 1) : ElementError(i) # Undef}

LowestFailing == CHOOSE i \in FailingIndices : \A j \in FailingIndices : i <= j

TooShort == Sch.minValue # Undef /\ 2 * Len(last.value.a) < Sch.minValue.n

TooLong == Sch.maxValue # Undef /\ 2 * Len(last.value.a) > Sch.maxValue.n

\* C13: Array validate of a value that is neither undefined nor null: a
\* non-array gives "Must be array"; an array whose length breaks min or max
\* gives the size message and no element is validated; otherwise the elements
\* are validated in index order: with abortEarly true or not given the result
\* is the map with the one entry of the lowest failing index, with abortEarly
\* false its keys are exactly the failing indices, and it is undefined when
\* every element passes.
C13_ArrayValidate ==
    (Validated /\ Sch.kind = "Array" /\ last.value \notin {Undef, Null})
        => IF ~IsArray(last.value) THEN last.result = Lit("Must be array")
           ELSE IF TooShort \/ TooLong
                THEN /\ last.result = IF TooShort THEN Sch.minMessage ELSE Sch.maxMessage
                     /\ CallsOn("validate", {Sch.schema}) = <<>>
           ELSE IF FailingIndices = {} THEN last.result = Undef
           ELSE IF last.context \in FailFastContexts
                THEN last.result = ErrMap(IdxKey(LowestFailing) :> ElementError(LowestFailing))
           ELSE /\ last.result.t = "errormap"
                /\ DOMAIN last.result.e = {IdxKey(i) : i \in FailingIndices}
                /\ \A i \in FailingIndices : last.result.e[IdxKey(i)] = ElementError(i)

C13_Witness ==
    /\ Validated
    /\ Sch.kind = "Array"
    /\ last.context = Obj([abortEarly |-> Bool(FALSE)])
    /\ last.value = Arr(<<Bool(TRUE), Num(0), Str(<<>>)>>)
    /\ last.result = ErrMap(IdxKey(1) :> Lit("Must be boolean") @@
                            IdxKey(2) :> Lit("Must be boolean"))

\* the Tuple at the root: what the schema of position i answers for the
\* input's value there (undefined beyond its end), and the positions that fail
PositionError(i) ==
    Validate(BuiltMachine, Sch.schemas[i + 1], At(last.value, i), ChildContext).r

Positions == 0..(Len(Sch.schemas) - 1)

FailingPositions == {i \in Positions : PositionError(i) # Undef}

LowestFailingPosition ==
    CHOOSE i \in FailingPositions : \A j \in FailingPositions : i <= j

MissingPositions == {i \in Positions : ~(i < Len(last.value.a))}

ValidatorContext ==
    IF last.context = Undef THEN Obj([abortEarly |-> Bool(TRUE)]) ELSE last.context

ReachesSizeCheck ==
    /\ Validated
    /\ last.value \notin {Undef, Null}
    /\ \/ Sch.kind = "String" /\ TypeOf(last.value) = "string"
       \/ Sch.kind = "Array" /\ IsArray(last.value)
       \/ /\ Sch.kind = "Number"
          /\ TypeOf(last.value) = "number"
          /\ ~last.value.nan
          /\ (IsInteger(last.value) \/ Sch.allowFloat = Bool(TRUE))

\* the size that is checked, in halves: the length of a string or an array,
\* the value of a number
SizeChecked ==
    CASE Sch.kind = "String" -> 2 * Len(last.value.s)
      [] Sch.kind = "Array" -> 2 * Len(last.value.a)
      [] Sch.kind = "Number" -> last.value.n

BelowMin == Sch.minValue # Undef /\ SizeChecked < Sch.minValue.n

AboveMax == Sch.maxValue # Undef /\ SizeChecked > Sch.maxValue.n

\* C16: the size check answers the min message when a min bound is set and
\* the size is below it, otherwise the max message when a max bound is set
\* and the size is above it, otherwise it passes; both bounds are inclusive,
\* the min check comes first when both are broken, and the size is the length
\* of a string or an array and the value of a number.
C16_SizeCheck ==
    ReachesSizeCheck
        => /\ BelowMin => last.result = Sch.minMessage
           /\ (~BelowMin /\ AboveMax) => last.result = Sch.maxMessage
           /\ (~BelowMin /\ ~AboveMax) =>
                  /\ last.result \notin {Sch.minMessage, Sch.maxMessage}
                  /\ (Sch.kind = "Number" \/ (Sch.kind = "String" /\ Sch.regexMatch = Undef))
                         => last.result = Undef

C16_Witness ==
    /\ Validated
    /\ Sch.kind = "Number"
    /\ Sch.minValue = Num(2)
    /\ Sch.maxValue = Num(1)
    /\ last.value = Half(3)
    /\ last.result = Lit("Min")

\* C17: Number validate of a value that is neither undefined nor null: what
\* is not a number, or is NaN, gives the fixed message "Must be number";
\* otherwise a non-integer gives the integer message unless float(true) was
\* called, before any look at the range; only then is the value checked
\* against the bounds.
C17_NumberValidateOrder ==
    (Validated /\ Sch.kind = "Number" /\ last.value \notin {Undef, Null})
        => IF TypeOf(last.value) # "number" \/ last.value.nan
           THEN last.result = Lit("Must be number")
           ELSE IF ~IsInteger(last.value) /\ Sch.allowFloat # Bool(TRUE)
                THEN last.result = Sch.intMessage
           ELSE last.result = IF BelowMin THEN Sch.minMessage
                              ELSE IF AboveMax THEN Sch.maxMessage
                              ELSE Undef

C17_Witness ==
    /\ Validated
    /\ Sch.kind = "Number"
    /\ Sch.allowFloat = Undef
    /\ Sch.maxValue = Num(0)
    /\ last.value = Half(3)
    /\ last.result = Lit("Must be integer")

\* whether the String at the root is to trim: its doTrim setting when doTrim
\* was called, else the context's trimStrings when given, else true
TrimInEffect ==
    IF Sch.trim # Undef THEN Sch.trim = Bool(TRUE)
    ELSE IF last.context # Undef /\ "trimStrings" \in DOMAIN last.context.o
         THEN last.context.o.trimStrings = Bool(TRUE)
    ELSE TRUE

\* C18: String transform of a string trims it exactly when the flag in effect
\* is true: the instance's doTrim setting, else the context's trimStrings,
\* else true; the casing and the base pass then work on the trimmed, or
\* untrimmed, string.
C18_TrimPrecedence ==
    (Transformed /\ Sch.kind = "String" /\ TypeOf(last.value) = "string")
        => LET kept == IF TrimInEffect THEN Trim(last.value.s) ELSE last.value.s
           IN  /\ last.result = BasePass(Str(ApplyCasing(Sch.casing, kept)))
               /\ (NoHooks(Sch) /\ Sch.casing = Undef) => last.result = Str(kept)

C18_Witness ==
    /\ Transformed
    /\ Sch.kind = "String"
    /\ Sch.trim = Bool(FALSE)
    /\ last.context = Obj([trimStrings |-> Bool(TRUE)])
    /\ last.value = Str(<<" ", "A">>)
    /\ last.result = Str(<<"-", "a">>)

\* the dictionary at the root: the keys of the input, what the key schema
\* answers for a key, what the value schema answers for its value, and what
\* is to be reported at the key
InputKeys == DOMAIN Members(last.value, built.protos)

KeyError(k) == Validate(BuiltMachine, Sch.keySchema, KeyString(k), ChildContext).r

ValueError(k) ==
    Validate(BuiltMachine, Sch.valueSchema, Members(last.value, built.protos)[k],
             ChildContext).r

Reported(k) ==
    IF KeyError(k) # Undef THEN Lit("Does not match possible values") ELSE ValueError(k)

FailingKeys == {k \in InputKeys : Reported(k) # Undef}

BareMachine ==
    [BuiltMachine EXCEPT !.heap[Root].customTransformer = Undef,
                         !.heap[Root].whenEmptyValue = Undef,
                         !.heap[Root].setPrototype = Undef]

\* what the root's own transform makes of the value: trim and casing,
\* rounding, date coercion, the children's transforms
OwnOutput == Transform(BareMachine, Root, last.value, last.context).r

Falsy == {Undef, Null, Bool(FALSE), Num(0), NaN, Str(<<>>)}

\* v after the empty-value substitution of the root
Substituted(v) ==
    IF Sch.whenEmptyValue = Undef THEN v
    ELSE IF v \in Falsy THEN Sch.whenEmptyValue.o.set ELSE v

\* v after the prototype assignment of the root, as the caller sees it
Prototyped(v) ==
    IF Sch.setPrototype # Undef /\ TypeOf(v) = "object"
    THEN Obj(Assign(built.protos[Sch.setPrototype.p], Members(v, built.protos)))
    ELSE v

\* C20: every schema applies its own transform first and then the base pass:
\* the custom transformer, then the empty-value substitution, then the
\* prototype assignment; the substitution replaces the value exactly when the
\* value it meets is undefined, null, false, 0, NaN or the empty string.
C20_PipelineOrder ==
    (Transformed /\ ~IsThrow(OwnOutput))
        => IF Sch.customTransformer = Undef
           THEN last.shown = Prototyped(Substituted(OwnOutput))
           ELSE \E c \in {EmptyObj, ChildContext} :
                    last.shown = Prototyped(Substituted(
                        ApplyTransformer(Sch.customTransformer.f, OwnOutput, c)))

C20_Witness ==
    /\ Transformed
    /\ Sch.kind = "String"
    /\ Sch.whenEmptyValue = Obj([set |-> Str(<<"a">>)])
    /\ Sch.customTransformer = Undef
    /\ last.value = Str(<<" ">>)
    /\ OwnOutput = Str(<<>>)
    /\ last.result = Str(<<"a">>)

\* the root is a String or a Number that only normalizes, and the value is a
\* string, respectively a number
Normalizes ==
    /\ Transformed
    /\ NoHooks(Sch)
    /\ \/ Sch.kind = "String" /\ TypeOf(last.value) = "string"
       \/ Sch.kind = "Number" /\ Sch.rounding # Undef /\ TypeOf(last.value) = "number"

\* C21: the transform of a String schema with trimming and casing only, and
\* of a Number schema with a rounding only, is idempotent on strings,
\* respectively numbers: transforming the result again gives the result.
C21_NormalizingIdempotent ==
    Normalizes
        => Transform(BuiltMachine, Root, last.result, last.context).r = last.result

\* idempotence wherever the casing is not capitalize
C21_IdempotentButCapitalize ==
    (Normalizes /\ ~(Sch.kind = "String" /\ Sch.casing = Lit("capitalize")))
        => Transform(BuiltMachine, Root, last.result, last.context).r = last.result

\* r is an object or an array handed back to the caller
IsBuilt(r) == r.t \in {"object", "array", "ref"}

\* C22: two transform calls in a row on a fixed-field Object, Array or Tuple
\* schema: the second returns an object that is not the object the first
\* returned, and the object the first returned still has the contents it was
\* returned with.
C22_FreshResults ==
    [][(/\ last.op = "transform"
        /\ last'.op = "transform"
        /\ Sch.kind \in {"MappedObject", "Array", "Tuple"}
        /\ IsBuilt(last.result)
        /\ IsBuilt(last'.result))
           => /\ ~(last.result.t = "ref" /\ last'.result = last.result)
              /\ Deref(last.result, protos') = last.shown]_vars

\* no instance of the tree is a Custom schema
NoCustomValidator == \A i \in 1..Len(built.heap) : built.heap[i].kind # "Custom"

\* an error is a message, or a map with at least one entry whose entries are errors
RECURSIVE IsError(_)
IsError(r) ==
    IF r.t = "errormap"
    THEN DOMAIN r.e # {} /\ \A k \in DOMAIN r.e : IsError(r.e[k])
    ELSE r.t \in {"string", "literal"}

\* C23: on a tree without Custom validators, validate returns undefined, a
\* message, or a map that has at least one entry at every nesting level.
C23_NoEmptyErrorMap ==
    (Validated /\ NoCustomValidator) => (last.result = Undef \/ IsError(last.result))

C23_Witness ==
    /\ Validated
    /\ NoCustomValidator
    /\ ~AbortEarly(last.context)
    /\ last.result.t = "errormap"
    /\ \E k \in DOMAIN last.result.e : last.result.e[k].t = "errormap"
    /\ IsError(last.result)

\* every instance of the tree is one of the built-in variants
BuiltInTree == \A i \in 1..Len(built.heap) : built.heap[i].kind \in BuiltInKinds

\* validate(v) of the schema as built, with no context
Valid(v) == Validate(BuiltMachine, Root, v, Undef).r = Undef

\* C24: on a tree of built-in variants, transform of a value that validate
\* accepts returns a value; it does not throw.
C24_TransformOfValidReturns ==
    (Transformed /\ BuiltInTree /\ Valid(last.value)) => last.result.t # "throw"

\* validate of the schema as built, stopping at the first error and collecting all
FailFast(v) == Validate(BuiltMachine, Root, v, Obj([abortEarly |-> Bool(TRUE)])).r

CollectAll(v) == Validate(BuiltMachine, Root, v, Obj([abortEarly |-> Bool(FALSE)])).r

\* error f is contained in error c: equal messages, or every key of the map f
\* is a key of the map c with the entry of f contained in the entry of c
RECURSIVE Contained(_, _)
Contained(f, c) ==
    IF f.t = "errormap"
    THEN /\ c.t = "errormap"
         /\ DOMAIN f.e \subseteq DOMAIN c.e
         /\ \A k \in DOMAIN f.e : Contained(f.e[k], c.e[k])
    ELSE f = c

\* every map of the error, at every nesting level, has exactly one entry
RECURSIVE OneEntryEach(_)
OneEntryEach(f) ==
    f.t = "errormap" =>
        /\ Cardinality(DOMAIN f.e) = 1
        /\ \A k \in DOMAIN f.e : OneEntryEach(f.e[k])

\* C25: on a tree without Custom validators the call made is one of the two
\* modes; both modes give the same verdict, and when they reject, the
\* fail-fast error has one entry per map and is contained in the collect-all
\* error.
C25_AbortEarlySameVerdict ==
    (Validated /\ NoCustomValidator) =>
        /\ last.result = (IF AbortEarly(last.context) THEN FailFast(last.value)
                                                      ELSE CollectAll(last.value))
        /\ FailFast(last.value) = Undef <=> CollectAll(last.value) = Undef
        /\ FailFast(last.value) # Undef =>
              /\ Contained(FailFast(last.value), CollectAll(last.value))
              /\ OneEntryEach(FailFast(last.value))

C25_Witness ==
    /\ Validated
    /\ NoCustomValidator
    /\ last.context = Obj([abortEarly |-> Bool(TRUE)])
    /\ last.result.t = "errormap"
    /\ \E k \in DOMAIN last.result.e : last.result.e[k].t = "errormap"
    /\ CollectAll(last.value) # last.result
    /\ Contained(last.result, CollectAll(last.value))

\* C26: on a String or Number schema of a built-in tree (size bounds, regex,
\* trimming, casing, rounding) without transform hooks, the transform of a
\* value that validate accepts is accepted by validate too.
C26_TransformPreservesValidity ==
    (/\ Transformed
     /\ BuiltInTree
     /\ Sch.kind \in {"String", "Number"}
     /\ NoHooks(Sch)
     /\ Valid(last.value)) => Valid(last.result)

\* no instance of the tree has a custom transformer
NoCustomTransformer ==
    \A i \in 1..Len(built.heap) : ~Truthy(built.heap[i].customTransformer)

\* C27: on a tree without a custom transformer, the input of a transform call,
\* with every object and array nested in it, has after the call the keys,
\* elements and values it had before the call.
C27_InputUntouched ==
    [][(last'.op = "transform" /\ NoCustomTransformer)
           => Deref(last'.value, protos') = Deref(last'.value, protos)]_vars

\* C28: an object schema with doSetPrototype and neither doCustom nor
\* doSetWhenEmpty transforms null to null and undefined to undefined, and
\* leaves the registered object as it was.
C28_PrototypeOnlyOnObjects ==
    (/\ Transformed
     /\ Sch.kind \in {"Object", "MappedObject"}
     /\ Truthy(Sch.setPrototype)
     /\ ~Truthy(Sch.customTransformer)
     /\ ~Truthy(Sch.whenEmptyValue)
     /\ last.value \in {Null, Undef})
        => (last.result = last.value /\ protos = built.protos)

\* what the transformer "seen" answers when it is given the context of the
\* root call, and what the base pass makes of that answer
SeenOfRootContext ==
    Get(IF last.context = Undef THEN EmptyObj ELSE last.context, "trimStrings", <<>>)

SeenThenSubstituted ==
    IF Truthy(Sch.whenEmptyValue) /\ ~Truthy(SeenOfRootContext)
    THEN Sch.whenEmptyValue.o.set
    ELSE SeenOfRootContext

\* C29: the transformer registered with doCustom on the root, whatever the
\* root's variant, is invoked with the context given to the root's transform:
\* a transformer answering the trimStrings it sees answers the caller's.
C29_TransformerSeesRootContext ==
    (/\ Transformed
     /\ Sch.customTransformer = Fn("seen")
     /\ ~Truthy(Sch.setPrototype)
     /\ last.result.t # "throw") => last.result = SeenThenSubstituted

\* C30 as stated: an Or accepts a value, undefined and null included, exactly
\* when at least one of its children accepts it.
C30_OrIsUnion ==
    (Validated /\ Sch.kind = "Or") => (last.result = Undef <=> PassingChildren # {})

\* C30: an Or accepts a value other than undefined and null exactly when at
\* least one of its children accepts it; for undefined and null the Or's own
\* optional and nullable flags decide, whatever its children accept.
C30_OrUnionButNullability ==
    (Validated /\ Sch.kind = "Or") =>
        IF last.value \in {Undef, Null}
        THEN last.result = NullabilityAnswer
        ELSE (last.result = Undef <=> PassingChildren # {})

C30_Witness ==
    /\ Validated
    /\ Sch.kind = "Or"
    /\ last.value = Undef
    /\ ~Sch.isOptional
    /\ PassingChildren # {}
    /\ last.result = Sch.requiredMessage

=============================================================================
